---- MODULE Spec2Model ----
(***************************************************************************)
(* Model of apps/ble_temp_sensor/src/main.c: a periodic temperature        *)
(* sampler task (task1_handler) filling a fixed-size buffer, and the BLE   *)
(* advertising / connection lifecycle driven by the NimBLE host callbacks  *)
(* (on_sync, ble_temp_gap_event, ble_temp_advertise), started by main.     *)
(***************************************************************************)
EXTENDS Integers, Sequences, FiniteSets

(***************************************************************************)
(* Program constants.                                                      *)
(***************************************************************************)
TEMPERATURE_READINGS_BUFFER_SIZE == 10

TEMPERATURE_PERIOD == 100

\* width of temperature_readings_index (uint8_t)
UINT8_MOD == 256

(***************************************************************************)
(* Bounds of the model.                                                    *)
(***************************************************************************)
\* the sensor returns a reading in 0..MaxTemp
MaxTemp == 1

\* the sampler takes at most MaxTicks readings
MaxTicks == 21

\* the stack delivers at most MaxEvents GAP events
MaxEvents == 5

\* stack calls return 0 (success) or an error code in 1..MaxRc
MaxRc == 1

\* a CONNECT event carries status 0 (established) or 1..MaxStatus (failed)
MaxStatus == 1

TempValues == 0..MaxTemp

RcValues == 0..MaxRc

StatusValues == 0..MaxStatus

\* address types ble_hs_id_infer_auto may select (public, random)
AddrTypes == {0, 1}

Slots == 0..(TEMPERATURE_READINGS_BUFFER_SIZE - 1)

EventTypes == {"CONNECT", "DISCONNECT", "ADV_COMPLETE", "MTU"}

NoEvent == [type |-> "NONE", status |-> 0]

VARIABLES
    \* ---- main ----
    main_pc,            \* next step of main(), or "halted" after a failed assert
    boot_log,           \* the steps main() has performed, in order
    sync_cb,            \* ble_hs_cfg.sync_cb
    task1_started,      \* os_task_init(&task1, ...) has been called
    assert_failed,      \* the call whose assert(rc == 0) failed, or "none"
    \* ---- BLE host as seen by the application ----
    synced,             \* the host has called the sync callback
    ble_temp_addr_type, \* static uint8_t ble_temp_addr_type
    adv_active,         \* an advertising procedure is running
    adv_cb,             \* the callback registered by ble_gap_adv_start
    connected,          \* a peer connection is established
    last_event,         \* the event the callback was last invoked with
    calls,              \* the stack calls made by the last callback, in order
    cb_ret,             \* the value the last ble_temp_gap_event call returned
    n_set_fields,       \* number of ble_gap_adv_set_fields calls so far
    n_adv_start,        \* number of ble_gap_adv_start calls so far
    n_events,           \* number of GAP events delivered so far
    \* ---- sampler task ----
    task_pc,            \* position of task1_handler
    temperature_readings,
    temperature_readings_index,
    buffer_full_logs,   \* number of "buffer full" logs of the current tick
    report,             \* the values logged by the current tick's full-buffer loop
    oob_store,          \* a store outside temperature_readings has happened
    n_delays,           \* number of os_time_delay requests so far
    delay_ms,           \* the period last converted by os_time_ms_to_ticks
    gatt_value,         \* the readings handed to the GATT server for a peer to read
    \* ---- history of the sensor (what get_temp_measurement returned) ----
    n_reads,            \* number of readings taken; the n-th reading has id n
    hist,               \* readings taken since the last report, in order
    recent,             \* the last TEMPERATURE_READINGS_BUFFER_SIZE readings, in order
    ticks_since_report, \* ticks since the last report (or since start)
    slot_id,            \* id of the reading each slot holds (0: none)
    slot_pending,       \* the slot holds a reading not yet reported
    times_reported,     \* how many times each reading id has been reported
    lost                \* ids overwritten in the buffer before being reported

main_vars == <<main_pc, boot_log, sync_cb, task1_started, assert_failed>>

stack_vars == <<synced, ble_temp_addr_type, adv_active, adv_cb, connected,
                last_event, calls, cb_ret, n_set_fields, n_adv_start, n_events>>

task_vars == <<task_pc, temperature_readings, temperature_readings_index,
               buffer_full_logs, report, oob_store, n_delays, delay_ms,
               gatt_value>>

hist_vars == <<n_reads, hist, recent, ticks_since_report, slot_id, slot_pending,
               times_reported, lost>>

vars == <<main_vars, stack_vars, task_vars, hist_vars>>

Init ==
    /\ main_pc = "sysinit"
    /\ boot_log = <<>>
    /\ sync_cb = "none"
    /\ task1_started = FALSE
    /\ assert_failed = "none"
    /\ synced = FALSE
    /\ ble_temp_addr_type = 0
    /\ adv_active = FALSE
    /\ adv_cb = "none"
    /\ connected = FALSE
    /\ last_event = NoEvent
    /\ calls = <<>>
    /\ cb_ret = 0
    /\ n_set_fields = 0
    /\ n_adv_start = 0
    /\ n_events = 0
    /\ task_pc = "sample"
    /\ temperature_readings = [i \in Slots |-> 0]
    /\ temperature_readings_index = 0
    /\ buffer_full_logs = 0
    /\ report = <<>>
    /\ oob_store = FALSE
    /\ n_delays = 0
    /\ delay_ms = 0
    /\ gatt_value = <<>>
    /\ n_reads = 0
    /\ hist = <<>>
    /\ recent = <<>>
    /\ ticks_since_report = 0
    /\ slot_id = [i \in Slots |-> 0]
    /\ slot_pending = [i \in Slots |-> FALSE]
    /\ times_reported = [id \in 1..MaxTicks |-> 0]
    /\ lost = {}

Running == main_pc # "halted"

(***************************************************************************)
(* The sampler task: task1_handler.                                        *)
(***************************************************************************)
\* temperature_readings_index++ on a uint8_t
NextIndex(idx) == (idx + 1) % UINT8_MOD

\* faulty variant: the full test fires one reading early
IsBufferFull_Early(idx) == TEMPERATURE_READINGS_BUFFER_SIZE - 1 = idx

\* faulty variant: the full test uses < instead of ==, so an index equal to the size passes
IsBufferFull_Greater(idx) == TEMPERATURE_READINGS_BUFFER_SIZE < idx

\* if(TEMPERATURE_READINGS_BUFFER_SIZE == temperature_readings_index)
IsBufferFull(idx) == TEMPERATURE_READINGS_BUFFER_SIZE = idx

\* faulty variant: the report loop starts at i = 1
FullReport_SkipFirst(buf) ==
    [i \in 1..(TEMPERATURE_READINGS_BUFFER_SIZE - 1) |-> buf[i]]

\* for(i = 0; i < TEMPERATURE_READINGS_BUFFER_SIZE; i++) LOG(..., temperature_readings[i])
FullReport(buf) ==
    [i \in 1..TEMPERATURE_READINGS_BUFFER_SIZE |-> buf[i - 1]]

\* faulty variant: the index is reset to 1 instead of 0
IndexAfterReport_One == NextIndex(0)

\* temperature_readings_index = 0
IndexAfterReport == 0

\* the last TEMPERATURE_READINGS_BUFFER_SIZE elements of a sequence of readings
LastReadings(q) ==
    IF Len(q) <= TEMPERATURE_READINGS_BUFFER_SIZE THEN q
    ELSE SubSeq(q, Len(q) - TEMPERATURE_READINGS_BUFFER_SIZE + 1, Len(q))

\* temperature_readings[temperature_readings_index] = get_temp_measurement();
\* temperature_readings_index++;
\* v: the value get_temp_measurement returns
SampleCode(v) ==
    LET idx == temperature_readings_index
        inb == idx \in Slots
    IN  /\ temperature_readings' =
               IF inb THEN [temperature_readings EXCEPT ![idx] = v]
                      ELSE temperature_readings
        /\ oob_store' = (oob_store \/ ~inb)
        /\ temperature_readings_index' = NextIndex(idx)
        /\ buffer_full_logs' = 0
        /\ report' = <<>>
        /\ task_pc' = "check"
        /\ UNCHANGED <<n_delays, delay_ms, gatt_value>>

\* what the reading of value v, stored by SampleCode, adds to the history
SampleHist(v) ==
    LET idx == temperature_readings_index
        id  == n_reads + 1
        inb == idx \in Slots
    IN  /\ n_reads' = id
        /\ hist' = IF buffer_full_logs > 0 THEN <<v>> ELSE Append(hist, v)
        /\ recent' = LastReadings(Append(recent, v))
        /\ ticks_since_report' =
               IF buffer_full_logs > 0 THEN 1 ELSE ticks_since_report + 1
        /\ lost' = IF inb /\ slot_pending[idx]
                     THEN lost \cup {slot_id[idx]} ELSE lost
        /\ slot_id' = IF inb THEN [slot_id EXCEPT ![idx] = id] ELSE slot_id
        /\ slot_pending' =
               IF inb THEN [slot_pending EXCEPT ![idx] = TRUE] ELSE slot_pending
        /\ UNCHANGED times_reported

\* one pass of the first two statements of the loop, the sensor returning a
\* value of V
TaskSampleOf(V) ==
    /\ Running
    /\ task1_started
    /\ task_pc = "sample"
    /\ n_reads < MaxTicks
    /\ \E v \in V : SampleCode(v) /\ SampleHist(v)
    /\ UNCHANGED <<main_vars, stack_vars>>

TaskSample == TaskSampleOf(TempValues)

\* the "If buffer is full" block
CheckFullCode ==
    /\ IF IsBufferFull(temperature_readings_index)
         THEN /\ buffer_full_logs' = buffer_full_logs + 1
              /\ report' = FullReport(temperature_readings)
              /\ temperature_readings_index' = IndexAfterReport
         ELSE UNCHANGED <<buffer_full_logs, report, temperature_readings_index>>
    /\ task_pc' = "delay"
    /\ UNCHANGED <<temperature_readings, oob_store, n_delays, delay_ms, gatt_value>>

\* what the report made by CheckFullCode adds to the history
CheckFullHist ==
    /\ IF IsBufferFull(temperature_readings_index)
         THEN /\ times_reported' =
                    [id \in DOMAIN times_reported |->
                        times_reported[id]
                          + Cardinality({i \in Slots : slot_id[i] = id})]
              /\ slot_pending' = [i \in Slots |-> FALSE]
         ELSE UNCHANGED <<times_reported, slot_pending>>
    /\ UNCHANGED <<n_reads, hist, recent, ticks_since_report, slot_id, lost>>

TaskCheckFull ==
    /\ Running
    /\ task_pc = "check"
    /\ n_delays < MaxTicks
    /\ CheckFullCode
    /\ CheckFullHist
    /\ UNCHANGED <<main_vars, stack_vars>>

\* os_time_ms_to_ticks(TEMPERATURE_PERIOD, &num_ticks); os_time_delay(num_ticks);
DelayCode ==
    /\ delay_ms' = TEMPERATURE_PERIOD
    /\ task_pc' = "sleeping"
    /\ UNCHANGED <<temperature_readings, temperature_readings_index,
                   buffer_full_logs, report, oob_store, gatt_value>>

\* faulty variant: a tick that reported loops again without requesting the delay
TaskDelay_SkippedAfterReport ==
    /\ Running
    /\ task_pc = "delay"
    /\ n_delays < MaxTicks
    /\ IF buffer_full_logs > 0
         THEN /\ task_pc' = "sample"
              /\ UNCHANGED <<temperature_readings, temperature_readings_index,
                             buffer_full_logs, report, oob_store, gatt_value,
                             n_delays, delay_ms>>
         ELSE /\ n_delays' = n_delays + 1
              /\ DelayCode
    /\ UNCHANGED <<main_vars, stack_vars, hist_vars>>

TaskDelay ==
    /\ Running
    /\ task_pc = "delay"
    /\ n_delays < MaxTicks
    /\ n_delays' = n_delays + 1
    /\ DelayCode
    /\ UNCHANGED <<main_vars, stack_vars, hist_vars>>

\* faulty variant: the loop is left after a full-buffer report
TaskWake_ExitsAfterReport ==
    /\ Running
    /\ task_pc = "sleeping"
    /\ buffer_full_logs = 0
    /\ task_pc' = "sample"
    /\ UNCHANGED <<temperature_readings, temperature_readings_index,
                   buffer_full_logs, report, oob_store, n_delays, delay_ms,
                   gatt_value>>
    /\ UNCHANGED <<main_vars, stack_vars, hist_vars>>

\* the requested delay expires and the scheduler resumes the task: while (1)
TaskWake ==
    /\ Running
    /\ task_pc = "sleeping"
    /\ task_pc' = "sample"
    /\ UNCHANGED <<temperature_readings, temperature_readings_index,
                   buffer_full_logs, report, oob_store, n_delays, delay_ms,
                   gatt_value>>
    /\ UNCHANGED <<main_vars, stack_vars, hist_vars>>

task1_handler == TaskSample \/ TaskCheckFull \/ TaskDelay \/ TaskWake

\* faulty variant: the asserts are compiled out, so a failure is ignored
AfterAssert_Ignored(rc, next) == next

\* a failed assert(rc == 0) stops the whole system
AfterAssert(rc, next) == IF rc = 0 THEN next ELSE "halted"

\* which call's assert(rc == 0) has seen a non-zero rc
AssertOutcome(rc, call) == IF rc = 0 THEN assert_failed ELSE call

(***************************************************************************)
(* The advertising state machine: ble_temp_advertise, ble_temp_gap_event,  *)
(* on_sync.  The callbacks work on the part of the host state they can     *)
(* change, passed as a record st.                                          *)
(***************************************************************************)
StackCall(fn, rc) == [fn |-> fn, rc |-> rc]

\* faulty variant: the return after a failed ble_gap_adv_set_fields is missing
ble_temp_advertise_NoReturn(st, rcSet, rcStart) ==
    LET s1 == [st EXCEPT
                 !.calls = Append(@, StackCall("ble_gap_adv_set_fields", rcSet)),
                 !.n_set_fields = @ + 1]
        s2 == [s1 EXCEPT
                 !.calls = Append(@, StackCall("ble_gap_adv_start", rcStart)),
                 !.n_adv_start = @ + 1]
    IN  IF rcStart # 0 THEN s2
        ELSE [s2 EXCEPT !.adv_active = TRUE, !.adv_cb = "ble_temp_gap_event"]

\* faulty variant: once ble_gap_adv_set_fields has failed, later attempts
\* give up at once
ble_temp_advertise_Latched(st, rcSet, rcStart) ==
    LET s1 == [st EXCEPT
                 !.calls = Append(@, StackCall("ble_gap_adv_set_fields", rcSet)),
                 !.n_set_fields = @ + 1]
        s2 == [s1 EXCEPT
                 !.calls = Append(@, StackCall("ble_gap_adv_start", rcStart)),
                 !.n_adv_start = @ + 1]
    IN  IF st.n_set_fields > st.n_adv_start THEN st
        ELSE IF rcSet # 0 THEN s1
        ELSE IF rcStart # 0 THEN s2
        ELSE [s2 EXCEPT !.adv_active = TRUE, !.adv_cb = "ble_temp_gap_event"]

\* faulty variant: ble_gap_adv_start is called before ble_gap_adv_set_fields
ble_temp_advertise_StartFirst(st, rcSet, rcStart) ==
    LET s1 == [st EXCEPT
                 !.calls = Append(@, StackCall("ble_gap_adv_start", rcStart)),
                 !.n_adv_start = @ + 1]
        s2 == [s1 EXCEPT
                 !.calls = Append(@, StackCall("ble_gap_adv_set_fields", rcSet)),
                 !.n_set_fields = @ + 1]
    IN  IF rcStart # 0 THEN s1
        ELSE IF rcSet # 0 THEN s2
        ELSE [s2 EXCEPT !.adv_active = TRUE, !.adv_cb = "ble_temp_gap_event"]

\* rc = ble_gap_adv_set_fields(&fields); if (rc != 0) return;
\* rc = ble_gap_adv_start(..., ble_temp_gap_event, NULL); if (rc != 0) return;
\* rcSet, rcStart: what the two stack calls return when they are made
ble_temp_advertise(st, rcSet, rcStart) ==
    LET s1 == [st EXCEPT
                 !.calls = Append(@, StackCall("ble_gap_adv_set_fields", rcSet)),
                 !.n_set_fields = @ + 1]
        s2 == [s1 EXCEPT
                 !.calls = Append(@, StackCall("ble_gap_adv_start", rcStart)),
                 !.n_adv_start = @ + 1]
    IN  IF rcSet # 0 THEN s1
        ELSE IF rcStart # 0 THEN s2
        ELSE [s2 EXCEPT !.adv_active = TRUE, !.adv_cb = "ble_temp_gap_event"]

\* faulty variant: the MTU case resumes advertising like the ADV_COMPLETE case
ble_temp_gap_event_MtuAdvertises(st, ev, rcSet, rcStart) ==
    LET s0 == [st EXCEPT !.cb_ret = 0]
    IN  CASE ev.type = "CONNECT" ->
               IF ev.status # 0 THEN ble_temp_advertise(s0, rcSet, rcStart) ELSE s0
          [] ev.type = "DISCONNECT" -> ble_temp_advertise(s0, rcSet, rcStart)
          [] ev.type = "ADV_COMPLETE" -> ble_temp_advertise(s0, rcSet, rcStart)
          [] ev.type = "MTU" -> ble_temp_advertise(s0, rcSet, rcStart)
          [] OTHER -> s0

\* faulty variant: the handler resumes advertising only when no advertising
\* procedure is running
ble_temp_gap_event_GuardedByState(st, ev, rcSet, rcStart) ==
    LET s0 == [st EXCEPT !.cb_ret = 0]
        resume == IF st.adv_active THEN s0
                  ELSE ble_temp_advertise(s0, rcSet, rcStart)
    IN  CASE ev.type = "CONNECT" -> IF ev.status # 0 THEN resume ELSE s0
          [] ev.type = "DISCONNECT" -> resume
          [] ev.type = "ADV_COMPLETE" -> resume
          [] ev.type = "MTU" -> s0
          [] OTHER -> s0

\* switch (event->type) { ... } return 0;
ble_temp_gap_event(st, ev, rcSet, rcStart) ==
    LET s0 == [st EXCEPT !.cb_ret = 0]
    IN  CASE ev.type = "CONNECT" ->
               IF ev.status # 0 THEN ble_temp_advertise(s0, rcSet, rcStart) ELSE s0
          [] ev.type = "DISCONNECT" -> ble_temp_advertise(s0, rcSet, rcStart)
          [] ev.type = "ADV_COMPLETE" -> ble_temp_advertise(s0, rcSet, rcStart)
          [] ev.type = "MTU" -> s0
          [] OTHER -> s0

\* faulty variant: every CONNECT event counts as an established connection,
\* whatever its status
LinkAfterEvent_StatusIgnored(link, ev) ==
    CASE ev.type = "CONNECT" -> [adv_active |-> FALSE, connected |-> TRUE]
      [] ev.type = "DISCONNECT" -> [link EXCEPT !.connected = FALSE]
      [] ev.type = "ADV_COMPLETE" -> [link EXCEPT !.adv_active = FALSE]
      [] OTHER -> link

\* The link change an event reports, made by the host before it invokes the
\* callback: CONNECT: "A new connection was established or a connection
\* attempt failed" (either way the advertising procedure has ended);
\* DISCONNECT: "Connection terminated"; ADV_COMPLETE: advertising has ended.
LinkAfterEvent(link, ev) ==
    CASE ev.type = "CONNECT" ->
           [adv_active |-> FALSE, connected |-> (ev.status = 0)]
      [] ev.type = "DISCONNECT" -> [link EXCEPT !.connected = FALSE]
      [] ev.type = "ADV_COMPLETE" -> [link EXCEPT !.adv_active = FALSE]
      [] OTHER -> link

\* The host invokes the callback handed to ble_gap_adv_start for the
\* advertising procedure that call started and for the connection that
\* procedure results in.
Deliverable(ev) ==
    /\ adv_cb = "ble_temp_gap_event"
    /\ CASE ev.type = "CONNECT" -> adv_active
         [] ev.type = "DISCONNECT" -> connected
         [] ev.type = "ADV_COMPLETE" -> adv_active
         [] ev.type = "MTU" -> connected
         [] OTHER -> FALSE

\* the host state a callback starts from: no call made yet by this callback
CallbackEntry(link) ==
    [adv_active |-> link.adv_active, adv_cb |-> adv_cb, calls |-> <<>>,
     cb_ret |-> cb_ret, n_set_fields |-> n_set_fields,
     n_adv_start |-> n_adv_start]

CallbackExit(st) ==
    /\ adv_active' = st.adv_active
    /\ adv_cb' = st.adv_cb
    /\ calls' = st.calls
    /\ cb_ret' = st.cb_ret
    /\ n_set_fields' = st.n_set_fields
    /\ n_adv_start' = st.n_adv_start

(***************************************************************************)
(* main(): the bootstrap sequence.                                         *)
(***************************************************************************)
\* sysinit(); log_register(...); LOG(INFO, "hello\n");
MainSysinit ==
    /\ main_pc = "sysinit"
    /\ main_pc' = "nrf_temp_init"
    /\ boot_log' = Append(boot_log, "sysinit")
    /\ UNCHANGED <<sync_cb, task1_started, assert_failed>>
    /\ UNCHANGED <<stack_vars, task_vars, hist_vars>>

\* nrf_temp_init();
MainTempInit ==
    /\ main_pc = "nrf_temp_init"
    /\ main_pc' = "cfg"
    /\ boot_log' = Append(boot_log, "nrf_temp_init")
    /\ UNCHANGED <<sync_cb, task1_started, assert_failed>>
    /\ UNCHANGED <<stack_vars, task_vars, hist_vars>>

\* faulty variant: main starts advertising itself, without waiting for the sync callback
MainCfg_AdvertisesEarly ==
    /\ main_pc = "cfg"
    /\ main_pc' = "gatt_svr_init"
    /\ sync_cb' = "on_sync"
    /\ boot_log' = Append(boot_log, "cfg")
    /\ \E rcSet \in RcValues, rcStart \in RcValues :
         CallbackExit(
             ble_temp_advertise(
                 CallbackEntry([adv_active |-> adv_active]), rcSet, rcStart))
    /\ UNCHANGED <<task1_started, assert_failed>>
    /\ UNCHANGED <<synced, ble_temp_addr_type, connected, last_event, n_events>>
    /\ UNCHANGED <<task_vars, hist_vars>>

\* faulty variant: the sync callback is not installed
MainCfg_NoSyncCb ==
    /\ main_pc = "cfg"
    /\ main_pc' = "gatt_svr_init"
    /\ boot_log' = Append(boot_log, "cfg")
    /\ UNCHANGED <<sync_cb, task1_started, assert_failed>>
    /\ UNCHANGED <<stack_vars, task_vars, hist_vars>>

\* ble_hs_cfg.sync_cb = on_sync; ble_hs_cfg.gatts_register_cb = gatt_svr_register_cb;
MainCfg ==
    /\ main_pc = "cfg"
    /\ main_pc' = "gatt_svr_init"
    /\ sync_cb' = "on_sync"
    /\ boot_log' = Append(boot_log, "cfg")
    /\ UNCHANGED <<task1_started, assert_failed>>
    /\ UNCHANGED <<stack_vars, task_vars, hist_vars>>

\* rc = gatt_svr_init(); assert(rc == 0);
MainGattInit ==
    /\ main_pc = "gatt_svr_init"
    /\ \E rc \in RcValues :
         /\ main_pc' = AfterAssert(rc, "device_name_set")
         /\ assert_failed' = AssertOutcome(rc, "gatt_svr_init")
    /\ boot_log' = Append(boot_log, "gatt_svr_init")
    /\ UNCHANGED <<sync_cb, task1_started>>
    /\ UNCHANGED <<stack_vars, task_vars, hist_vars>>

\* rc = ble_svc_gap_device_name_set(device_name); assert(rc == 0);
MainNameSet ==
    /\ main_pc = "device_name_set"
    /\ \E rc \in RcValues :
         /\ main_pc' = AfterAssert(rc, "init_app_tasks")
         /\ assert_failed' = AssertOutcome(rc, "ble_svc_gap_device_name_set")
    /\ boot_log' = Append(boot_log, "device_name_set")
    /\ UNCHANGED <<sync_cb, task1_started>>
    /\ UNCHANGED <<stack_vars, task_vars, hist_vars>>

\* init_app_tasks(): os_task_init(&task1, "task1", task1_handler, ...);
\* then main enters while (1) os_eventq_run(os_eventq_dflt_get());
MainInitAppTasks ==
    /\ main_pc = "init_app_tasks"
    /\ main_pc' = "eventq"
    /\ task1_started' = TRUE
    /\ boot_log' = Append(boot_log, "init_app_tasks")
    /\ UNCHANGED <<sync_cb, assert_failed>>
    /\ UNCHANGED <<stack_vars, task_vars, hist_vars>>

main ==
    \/ MainSysinit
    \/ MainTempInit
    \/ MainCfg
    \/ MainGattInit
    \/ MainNameSet
    \/ MainInitAppTasks

(***************************************************************************)
(* The events os_eventq_run dispatches from the default event queue.        *)
(***************************************************************************)
\* faulty variant: a DISCONNECT event also discards the buffered readings
HandleEvent_DisconnectFlushes(ev) ==
    /\ main_pc = "eventq"
    /\ n_events < MaxEvents
    /\ \E rcSet \in RcValues, rcStart \in RcValues :
         LET link == LinkAfterEvent(
                        [adv_active |-> adv_active, connected |-> connected], ev)
         IN  /\ connected' = link.connected
             /\ CallbackExit(
                    ble_temp_gap_event(CallbackEntry(link), ev, rcSet, rcStart))
    /\ last_event' = ev
    /\ n_events' = n_events + 1
    /\ temperature_readings_index' =
           IF ev.type = "DISCONNECT" THEN 0 ELSE temperature_readings_index
    /\ UNCHANGED <<task_pc, temperature_readings, buffer_full_logs, report,
                   oob_store, n_delays, delay_ms, gatt_value>>
    /\ UNCHANGED <<synced, ble_temp_addr_type>>
    /\ UNCHANGED <<main_vars, hist_vars>>

\* the host reports the link change of ev and invokes ble_temp_gap_event(ev)
HandleEvent(ev) ==
    /\ main_pc = "eventq"
    /\ n_events < MaxEvents
    /\ \E rcSet \in RcValues, rcStart \in RcValues :
         LET link == LinkAfterEvent(
                        [adv_active |-> adv_active, connected |-> connected], ev)
         IN  /\ connected' = link.connected
             /\ CallbackExit(
                    ble_temp_gap_event(CallbackEntry(link), ev, rcSet, rcStart))
    /\ last_event' = ev
    /\ n_events' = n_events + 1
    /\ UNCHANGED <<synced, ble_temp_addr_type>>
    /\ UNCHANGED <<main_vars, task_vars, hist_vars>>

\* os_eventq_run dispatches one GAP event of the running advertising
\* procedure or connection to ble_temp_gap_event
GapEvent(ev) ==
    /\ Deliverable(ev)
    /\ HandleEvent(ev)

DeliverConnect ==
    \E status \in StatusValues : GapEvent([type |-> "CONNECT", status |-> status])

DeliverDisconnect == GapEvent([type |-> "DISCONNECT", status |-> 0])

DeliverAdvComplete == GapEvent([type |-> "ADV_COMPLETE", status |-> 0])

DeliverMtu == GapEvent([type |-> "MTU", status |-> 0])

\* os_eventq_run dispatches the host's sync event to ble_hs_cfg.sync_cb:
\* rc = ble_hs_id_infer_auto(0, &ble_temp_addr_type); assert(rc == 0);
\* ble_temp_advertise();
on_sync ==
    /\ main_pc = "eventq"
    /\ sync_cb = "on_sync"
    /\ ~synced
    /\ synced' = TRUE
    /\ \E rc \in RcValues, at \in AddrTypes, rcSet \in RcValues, rcStart \in RcValues :
         IF rc # 0
           THEN /\ main_pc' = AfterAssert(rc, main_pc)
                /\ assert_failed' = AssertOutcome(rc, "ble_hs_id_infer_auto")
                /\ UNCHANGED <<ble_temp_addr_type, adv_active, adv_cb, calls,
                               cb_ret, n_set_fields, n_adv_start>>
           ELSE /\ main_pc' = AfterAssert(rc, main_pc)
                /\ assert_failed' = AssertOutcome(rc, "ble_hs_id_infer_auto")
                /\ ble_temp_addr_type' = at
                /\ CallbackExit(
                       ble_temp_advertise(
                           CallbackEntry([adv_active |-> adv_active]),
                           rcSet, rcStart))
    /\ UNCHANGED <<connected, last_event, n_events>>
    /\ UNCHANGED <<boot_log, sync_cb, task1_started>>
    /\ UNCHANGED <<task_vars, hist_vars>>

\* The callback invoked with an event in any link state, as a test of the
\* handler does ("the next Disconnect-equivalent event" after a failed
\* attempt): only the registration made by ble_gap_adv_start is required.
InjectedEvent(ev) ==
    /\ adv_cb = "ble_temp_gap_event"
    /\ HandleEvent(ev)

InjectConnect ==
    \E status \in StatusValues :
        InjectedEvent([type |-> "CONNECT", status |-> status])

InjectDisconnect == InjectedEvent([type |-> "DISCONNECT", status |-> 0])

InjectAdvComplete == InjectedEvent([type |-> "ADV_COMPLETE", status |-> 0])

InjectMtu == InjectedEvent([type |-> "MTU", status |-> 0])

ConnectionState ==
    IF connected THEN "Connected"
    ELSE IF adv_active THEN "Advertising"
    ELSE "Idle"

(***************************************************************************)
(* Specifications.                                                         *)
(***************************************************************************)
StackNext ==
    \/ main
    \/ on_sync
    \/ DeliverConnect
    \/ DeliverDisconnect
    \/ DeliverAdvComplete
    \/ DeliverMtu

SamplerNext ==
    \/ main
    \/ task1_handler

Next ==
    \/ StackNext
    \/ task1_handler

(***************************************************************************)
(* Both components together.  The sampler task and the callbacks of the    *)
(* default event queue interleave at the granularity of the steps above.   *)
(* To keep the product small the sensor is taken to repeat one fixed       *)
(* sequence of TEMPERATURE_READINGS_BUFFER_SIZE readings, so the value      *)
(* read is determined by the position it is stored at.                     *)
(***************************************************************************)
\* rawTemp = nrf_temp_read() for the reading stored at position idx
SensorRamp(idx) == (idx + 1) % (MaxTemp + 1)

\* the first two statements of the loop, reading the repeating sensor
RampSample == TaskSampleOf({SensorRamp(temperature_readings_index)})

\* the loop keeps running after the history has stopped being recorded:
\* the same statements, the history variables left as they are
TaskSampleOn ==
    /\ Running
    /\ task1_started
    /\ task_pc = "sample"
    /\ n_reads >= MaxTicks
    /\ SampleCode(SensorRamp(temperature_readings_index))
    /\ UNCHANGED <<main_vars, stack_vars, hist_vars>>

TaskCheckFullOn ==
    /\ Running
    /\ task_pc = "check"
    /\ n_delays >= MaxTicks
    /\ CheckFullCode
    /\ UNCHANGED <<main_vars, stack_vars, hist_vars>>

TaskDelayOn ==
    /\ Running
    /\ task_pc = "delay"
    /\ n_delays >= MaxTicks
    /\ DelayCode
    /\ UNCHANGED n_delays
    /\ UNCHANGED <<main_vars, stack_vars, hist_vars>>

\* a step of the sampler task while it is runnable
SamplerStep ==
    \/ RampSample
    \/ TaskCheckFull
    \/ TaskDelay
    \/ TaskSampleOn
    \/ TaskCheckFullOn
    \/ TaskDelayOn

SystemNext ==
    \/ StackNext
    \/ RampSample
    \/ TaskCheckFull
    \/ TaskDelay
    \/ TaskWake

FairSystemNext ==
    \/ SystemNext
    \/ TaskSampleOn
    \/ TaskCheckFullOn
    \/ TaskDelayOn

\* both components, for as long as the history is recorded
SystemSpec == Init /\ [][SystemNext]_vars

\* both components without end: every requested delay eventually expires
\* (os_time_delay returns) and a runnable sampler task is eventually run
FairSystemSpec ==
    /\ Init
    /\ [][FairSystemNext]_vars
    /\ WF_vars(TaskWake)
    /\ WF_vars(SamplerStep)

InjectNext ==
    \/ main
    \/ on_sync
    \/ InjectConnect
    \/ InjectDisconnect
    \/ InjectAdvComplete
    \/ InjectMtu

\* the advertising state machine driven with events in any order
InjectSpec == Init /\ [][InjectNext]_vars

\* the advertising state machine alone: the sampler task is not scheduled
StackSpec == Init /\ [][StackNext]_vars

\* the sampler task alone: the host delivers nothing
SamplerSpec == Init /\ [][SamplerNext]_vars

Spec == Init /\ [][Next]_vars

(***************************************************************************)
(* Properties of the sampler task.                                         *)
(***************************************************************************)
\* the current tick has passed its "If buffer is full" block
TickDone == n_reads > 0 /\ task_pc # "check"

\* C1: a full-buffer report fires on a tick if and only if that tick is the
\* TEMPERATURE_READINGS_BUFFER_SIZE-th tick since the last report (or since
\* start): ticks 1..size-1 after a report produce none, the size-th tick
\* always produces exactly one.
C1_ReportExactlyOnCapacityTick ==
    /\ n_reads > 0 => ticks_since_report \in 1..TEMPERATURE_READINGS_BUFFER_SIZE
    /\ task_pc = "check" => buffer_full_logs = 0 /\ report = <<>>
    /\ TickDone =>
         /\ buffer_full_logs \in {0, 1}
         /\ (buffer_full_logs = 1) <=>
                (ticks_since_report = TEMPERATURE_READINGS_BUFFER_SIZE)
         /\ (report # <<>>) <=> (buffer_full_logs = 1)

\* the second report has fired, on the 20th tick, and a 21st tick fired none
C1_Witness ==
    /\ TickDone
    /\ n_reads = 2 * TEMPERATURE_READINGS_BUFFER_SIZE + 1
    /\ buffer_full_logs = 0
    /\ times_reported[2 * TEMPERATURE_READINGS_BUFFER_SIZE] = 1

\* C2: every full-buffer report surfaces exactly
\* TEMPERATURE_READINGS_BUFFER_SIZE samples, and they are the most recent
\* readings in the order they were read: element i of the report is the i-th
\* reading taken since the previous report.
C2_ReportIsLastReadingsInOrder ==
    (TickDone /\ buffer_full_logs > 0) =>
        /\ Len(report) = TEMPERATURE_READINGS_BUFFER_SIZE
        /\ report = hist
        /\ report = recent

\* a second report whose readings differ from each other and from the first
\* report's, which the buffer still held when they were stored
C2_Witness ==
    /\ TickDone
    /\ buffer_full_logs > 0
    /\ n_reads = 2 * TEMPERATURE_READINGS_BUFFER_SIZE
    /\ report[1] # report[2]
    /\ report[TEMPERATURE_READINGS_BUFFER_SIZE] = 1

\* the reading with this id is in the buffer and has not been reported yet
Pending(id) == \E i \in Slots : slot_id[i] = id /\ slot_pending[i]

\* C3: each sensor reading appears in exactly one full-buffer report: none is
\* reported twice, and no slot is overwritten by a later reading before the
\* reading it holds has been reported (a reading taken is either reported
\* once or still waiting in its slot for the next report).
C3_EachReadingReportedOnce ==
    /\ lost = {}
    /\ \A id \in DOMAIN times_reported :
         /\ times_reported[id] <= 1
         /\ id > n_reads => times_reported[id] = 0 /\ ~Pending(id)
         /\ id <= n_reads => ((times_reported[id] = 1) <=> ~Pending(id))

\* two reports have been made and a reported slot has been overwritten
C3_Witness ==
    /\ n_reads = 2 * TEMPERATURE_READINGS_BUFFER_SIZE + 1
    /\ times_reported[1] = 1
    /\ times_reported[TEMPERATURE_READINGS_BUFFER_SIZE + 1] = 1
    /\ slot_id[0] = n_reads
    /\ Pending(n_reads)

\* C4: temperature_readings_index is in 0..size-1 whenever a tick begins and
\* whenever the task is suspended in its delay, so every store is in bounds;
\* the value size is reached only inside a tick, between the increment and
\* the full test, and is reset to 0 by that test in the same tick, after the
\* report.
C4_IndexInBounds ==
    /\ [](/\ ~oob_store
          /\ task_pc # "check" => temperature_readings_index \in Slots
          /\ task_pc = "check" =>
                temperature_readings_index
                    \in 1..TEMPERATURE_READINGS_BUFFER_SIZE)
    /\ [][temperature_readings_index = TEMPERATURE_READINGS_BUFFER_SIZE =>
            /\ temperature_readings_index' = 0
            /\ report' = FullReport(temperature_readings)
            /\ task_pc' = "delay"]_vars

\* the index was reset after a report and the task sleeps with index 0,
\* having stored into the last slot
C4_Witness ==
    /\ task_pc = "sleeping"
    /\ temperature_readings_index = 0
    /\ buffer_full_logs = 1
    /\ slot_id[TEMPERATURE_READINGS_BUFFER_SIZE - 1] = n_reads

(***************************************************************************)
(* Properties of the advertising state machine.                            *)
(***************************************************************************)
ConnectOk == [type |-> "CONNECT", status |-> 0]

\* this step is the delivery of one GAP event to ble_temp_gap_event
EventStep == n_events' = n_events + 1

\* C5: after every sequence of stack events delivered after start that ends in
\* a DISCONNECT or an ADV_COMPLETE event, the connection state is Advertising
\* (never Idle, never stuck in Connected).
C5_EndsAdvertising ==
    last_event.type \in {"DISCONNECT", "ADV_COMPLETE"} =>
        ConnectionState = "Advertising"

\* C6: after on_sync has run, in every state between callbacks the device is
\* either Connected or actively Advertising.
C6_ConnectedOrAdvertising ==
    (synced /\ Running) => ConnectionState \in {"Connected", "Advertising"}

C8_NoAdvertisingBeforeSync ==
    /\ [](~synced =>
            /\ n_set_fields = 0
            /\ n_adv_start = 0
            /\ calls = <<>>
            /\ ~adv_active)
    /\ [][(n_set_fields + n_adv_start = 0 /\ n_set_fields' + n_adv_start' > 0) =>
            /\ ~synced
            /\ synced'
            /\ n_events' = 0
            /\ calls'[1].fn = "ble_gap_adv_set_fields"]_vars

\* on_sync has made the first attempt, and no event has been delivered yet
C8_Witness ==
    /\ synced
    /\ n_events = 0
    /\ n_set_fields = 1
    /\ n_adv_start = 1
    /\ adv_active

\* C9: a CONNECT event handled in Advertising has two outcomes: with non-zero
\* status the handler issues a fresh advertising attempt and the state stays
\* Advertising; with status 0 it issues no advertising call and the state
\* becomes Connected.
C9_ConnectOutcomes ==
    last_event.type = "CONNECT" =>
        IF last_event.status # 0
          THEN /\ calls # <<>>
               /\ calls[1].fn = "ble_gap_adv_set_fields"
               /\ ConnectionState = "Advertising"
          ELSE /\ calls = <<>>
               /\ ConnectionState = "Connected"

\* C10: an MTU event received while Connected leaves the state Connected and
\* triggers no stack call: no ble_gap_adv_set_fields call, no
\* ble_gap_adv_start call, and no change to any other state.
C10_MtuIsNoOp ==
    [][(EventStep /\ last_event'.type = "MTU" /\ ConnectionState = "Connected") =>
            /\ ConnectionState' = "Connected"
            /\ calls' = <<>>
            /\ cb_ret' = 0
            /\ UNCHANGED <<n_set_fields, n_adv_start, adv_active, adv_cb,
                           connected, synced, ble_temp_addr_type>>
            /\ UNCHANGED <<main_vars, task_vars, hist_vars>>]_vars

\* an MTU event has been handled while connected
C10_Witness ==
    /\ last_event.type = "MTU"
    /\ ConnectionState = "Connected"
    /\ calls = <<>>

(***************************************************************************)
(* Properties of advertising attempts.                                     *)
(***************************************************************************)
\* the events on which the handler resumes advertising
ResumeEvent(ev) ==
    \/ ev.type \in {"DISCONNECT", "ADV_COMPLETE"}
    \/ ev.type = "CONNECT" /\ ev.status # 0

\* this step is the sync callback
SyncStep == ~synced /\ synced'

\* the last callback made an advertising attempt, and the attempt failed
AttemptFailed == calls # <<>> /\ calls[Len(calls)].rc # 0

\* C11: when ble_gap_adv_set_fields or ble_gap_adv_start fails, the state
\* machine does not retry on its own: the failing attempt ends with no
\* further stack call, and no new attempt is made until a later DISCONNECT,
\* ADV_COMPLETE or failed CONNECT event is delivered; if none arrives, the
\* device stays non-advertising.
C11_NoRetryAfterFailure ==
    /\ [](/\ \A i \in 1..Len(calls) : calls[i].rc # 0 => i = Len(calls)
          /\ AttemptFailed => ~adv_active)
    /\ [][(n_set_fields' # n_set_fields \/ n_adv_start' # n_adv_start) =>
            \/ SyncStep
            \/ EventStep /\ ResumeEvent(last_event')]_vars
    /\ [][(~adv_active /\ adv_active') =>
            \/ SyncStep
            \/ EventStep /\ ResumeEvent(last_event')]_vars

\* an attempt made on an event has failed: the device is neither advertising
\* nor connected
C11_Witness ==
    /\ AttemptFailed
    /\ n_events >= 1
    /\ ResumeEvent(last_event)
    /\ ConnectionState = "Idle"

\* C12: after an advertising attempt has failed, the next DISCONNECT or
\* ADV_COMPLETE event still issues a complete new advertising attempt
\* (ble_gap_adv_set_fields, then ble_gap_adv_start if that succeeded): a
\* failure leaves behind no state that suppresses or alters later attempts.
C12_AttemptAfterFailure ==
    [][(EventStep /\ last_event'.type \in {"DISCONNECT", "ADV_COMPLETE"}) =>
            /\ calls' # <<>>
            /\ calls'[1].fn = "ble_gap_adv_set_fields"
            /\ n_set_fields' = n_set_fields + 1
            /\ calls'[1].rc = 0 =>
                 /\ Len(calls') = 2
                 /\ calls'[2].fn = "ble_gap_adv_start"
                 /\ n_adv_start' = n_adv_start + 1
                 /\ calls'[2].rc = 0 => adv_active']_vars

\* an earlier attempt failed at ble_gap_adv_set_fields, and the attempt made
\* on the DISCONNECT event that followed was complete and succeeded
C12_Witness ==
    /\ n_set_fields > n_adv_start
    /\ last_event.type = "DISCONNECT"
    /\ Len(calls) = 2
    /\ calls[2].rc = 0
    /\ adv_active

(***************************************************************************)
(* Further properties of the sampler task.                                 *)
(***************************************************************************)
\* C13: when the sample buffer becomes full, the buffered readings are copied
\* to the BLE GATT attribute so that a connected peer can read them: every
\* full-buffer event updates the exposed value with the readings collected.
C13_ReportReachesGatt ==
    (TickDone /\ buffer_full_logs > 0) => gatt_value = report

\* C16: the sampler re-arms itself: every tick, a reporting tick included, is
\* followed by exactly one delay request of TEMPERATURE_PERIOD before the next
\* tick begins, so ticks and delay requests strictly alternate, beginning
\* with a tick.
C16_TicksAndDelaysAlternate ==
    /\ task_pc \in {"check", "delay"} => n_delays = n_reads - 1
    /\ task_pc \in {"sleeping", "sample"} => n_delays = n_reads
    /\ task_pc = "sleeping" => n_reads >= 1
    /\ n_delays > 0 => delay_ms = TEMPERATURE_PERIOD

\* the delay has been requested after a tick that reported the full buffer
C16_Witness ==
    /\ task_pc = "sleeping"
    /\ buffer_full_logs = 1
    /\ n_reads = 2 * TEMPERATURE_READINGS_BUFFER_SIZE
    /\ n_delays = n_reads

(***************************************************************************)
(* Properties of the bootstrap.                                            *)
(***************************************************************************)
BootOrder ==
    <<"sysinit", "nrf_temp_init", "cfg", "gatt_svr_init", "device_name_set",
      "init_app_tasks">>

\* C17: the fatal failures halt startup: if gatt_svr_init or
\* ble_svc_gap_device_name_set fails, the sampler task is never registered
\* and the event loop is never entered; if ble_hs_id_infer_auto fails in the
\* sync callback, no advertising attempt is ever made.
C17_FatalFailuresHalt ==
    /\ assert_failed \in {"gatt_svr_init", "ble_svc_gap_device_name_set"} =>
         /\ main_pc = "halted"
         /\ ~task1_started
         /\ ~synced
         /\ n_events = 0
         /\ n_set_fields = 0
    /\ assert_failed = "ble_hs_id_infer_auto" =>
         /\ main_pc = "halted"
         /\ n_set_fields = 0
         /\ n_adv_start = 0
         /\ calls = <<>>
         /\ ~adv_active

\* identity inference has failed in the sync callback, after the sampler task
\* was registered
C17_Witness ==
    /\ assert_failed = "ble_hs_id_infer_auto"
    /\ synced
    /\ task1_started
    /\ main_pc = "halted"

\* C18: main performs its steps in a fixed order and never returns: sensor
\* init, attribute-registry init, device-name set, registration of the sampler
\* task, and only then the event loop; the sync callback is installed before
\* the event loop starts.
C18_BootOrder ==
    /\ [](/\ Len(boot_log) <= Len(BootOrder)
          /\ boot_log = SubSeq(BootOrder, 1, Len(boot_log))
          /\ task1_started => boot_log = BootOrder
          /\ main_pc = "eventq" =>
               /\ boot_log = BootOrder
               /\ task1_started
               /\ sync_cb = "on_sync"
          /\ (synced \/ n_events > 0) => boot_log = BootOrder /\ sync_cb = "on_sync")
    /\ [][main_pc = "eventq" => main_pc' \in {"eventq", "halted"}]_vars
    /\ [][main_pc' = "eventq" /\ main_pc # "eventq" =>
            main_pc = "init_app_tasks" /\ sync_cb = "on_sync"]_vars

\* the event loop runs and has dispatched the sync event and a GAP event
C18_Witness ==
    /\ main_pc = "eventq"
    /\ synced
    /\ n_events >= 1

(***************************************************************************)
(* Properties of the event handler as a whole.                             *)
(***************************************************************************)
\* the number of calls of fn among the calls of the last callback
CallsOf(fn) == Cardinality({i \in 1..Len(calls) : calls[i].fn = fn})

\* C19: within every advertising attempt ble_gap_adv_set_fields precedes
\* ble_gap_adv_start, ble_gap_adv_start is called only if
\* ble_gap_adv_set_fields returned success, and each is called at most once;
\* so every DISCONNECT, ADV_COMPLETE or failed CONNECT event causes exactly
\* one ble_gap_adv_set_fields call and at most one ble_gap_adv_start call.
C19_AttemptShape ==
    /\ [](/\ Len(calls) <= 2
          /\ CallsOf("ble_gap_adv_set_fields") <= 1
          /\ CallsOf("ble_gap_adv_start") <= 1
          /\ Len(calls) >= 1 => calls[1].fn = "ble_gap_adv_set_fields"
          /\ Len(calls) = 2 =>
               calls[1].rc = 0 /\ calls[2].fn = "ble_gap_adv_start")
    /\ [][(EventStep /\ ResumeEvent(last_event')) =>
            /\ CallsOf("ble_gap_adv_set_fields")' = 1
            /\ n_set_fields' = n_set_fields + 1
            /\ n_adv_start' = n_adv_start + CallsOf("ble_gap_adv_start")']_vars

\* a failed CONNECT event has caused one call of each, in order
C19_Witness ==
    /\ last_event.type = "CONNECT"
    /\ last_event.status # 0
    /\ Len(calls) = 2
    /\ calls[1].fn = "ble_gap_adv_set_fields"
    /\ calls[2].fn = "ble_gap_adv_start"

\* C20: the event handler is stateless: the stack calls it issues and its
\* return value (always 0) are a function of the event's type and connect
\* status alone, independent of the connection state and of the event
\* history: a DISCONNECT or ADV_COMPLETE event delivered in any state,
\* Connected included, and a failed CONNECT trigger an advertising attempt,
\* and an event of any other type triggers none.
C20_HandlerIsStateless ==
    [][EventStep =>
            /\ cb_ret' = 0
            /\ ResumeEvent(last_event') =>
                 calls' # <<>> /\ calls'[1].fn = "ble_gap_adv_set_fields"
            /\ ~ResumeEvent(last_event') => calls' = <<>>]_vars

\* an ADV_COMPLETE event delivered while Connected has started advertising
\* again, with the connection still up
C20_Witness ==
    /\ last_event.type = "ADV_COMPLETE"
    /\ connected
    /\ Len(calls) = 2
    /\ adv_active

(***************************************************************************)
(* Properties of the two components together.                              *)
(***************************************************************************)
\* the report of a buffer filled by the repeating sensor
ExpectedReport == FullReport([i \in Slots |-> SensorRamp(i)])

\* C14: the sampler and the advertising state machine share no mutable
\* state under any interleaving of ticks and stack events: no stack event
\* and no advertising failure changes the buffer, the index or anything else
\* of the sampler, no step of a tick changes the connection state or issues
\* a stack call, and so the buffer, the index and the reports are determined
\* by the number of readings taken, in every connection state.
C14_SamplerIndependentOfStack ==
    /\ [][stack_vars' # stack_vars => UNCHANGED <<task_vars, hist_vars>>]_vars
    /\ [][task_vars' # task_vars => UNCHANGED <<stack_vars, main_vars>>]_vars
    /\ [](/\ \A i \in Slots :
                i < n_reads => temperature_readings[i] = SensorRamp(i)
          /\ TickDone =>
               /\ temperature_readings_index
                     = n_reads % TEMPERATURE_READINGS_BUFFER_SIZE
               /\ report =
                     IF n_reads % TEMPERATURE_READINGS_BUFFER_SIZE = 0
                       THEN ExpectedReport ELSE <<>>)

\* the second report is made while the device is Idle after a failed
\* advertising attempt that followed a DISCONNECT event
C14_Witness ==
    /\ n_reads = 2 * TEMPERATURE_READINGS_BUFFER_SIZE
    /\ task_pc = "delay"
    /\ report = ExpectedReport
    /\ last_event.type = "DISCONNECT"
    /\ calls # <<>>
    /\ ConnectionState = "Idle"

\* a tick has stored its reading
TickTaken == task_pc = "check"

\* a tick has reported the full buffer
ReportMade == task_pc = "delay" /\ buffer_full_logs = 1

====
